---------------------------- MODULE Spec2Model ----------------------------
(***************************************************************************)
(* Dynasty draft tool (src/app.py): the name reconciler                    *)
(* match_players_to_sleeper, the ranking store (save/load against a remote *)
(* repository file with a local-file fallback) and the Streamlit page      *)
(* main(), whose every script run is one user interaction.                 *)
(*                                                                         *)
(* Python strings on which the code does character work (lower, strip,     *)
(* replace) are sequences of one-character strings.                        *)
(***************************************************************************)
EXTENDS Integers, Sequences, FiniteSets, TLC

VARIABLES
    \* reconciler, as a function of its three arguments
    df_in,            \* df: the ranked rows handed to match_players_to_sleeper
    dir_in,           \* sleeper_players: the directory, in iteration order
    ids_in,           \* drafted_player_ids
    df_out,           \* the returned frame
    mpc,              \* "call" before the call, "done" after it
    \* the two persistence backends: the text of user_rankings.json in each
    remote_file,      \* RANKINGS_FILE in the GitHub repository
    local_file,       \* RANKINGS_FILE in the working directory
    \* ranking store, as save followed by load
    st_rankings,      \* st.session_state.user_rankings handed to save
    st_repo,          \* the repo argument: Repo or None
    st_wrote,         \* the backend the save wrote: "remote", "local", "none"
    st_load_env,      \* the backend outcomes the load met
    st_loaded,        \* what load returned (or that it raised)
    st_pc,            \* "start", "saved", "loaded", "reloaded"
    \* the page: st.session_state of each browser session, and what it shows
    github_repo,      \* [session -> Repo or None]
    user_rankings,    \* [session -> [user -> list of names]]
    players_data,     \* [session -> frame with drafted and sleeper_id]
    sleeper_players,  \* [session -> directory of the last refresh]
    drafted_players,  \* [session -> set of drafted ids of the last refresh]
    selected_user,    \* [session -> the sidebar selectbox]
    shown,            \* [session -> valid_rankings as the editor lists them]
    consensus,        \* [session -> the rows of the consensus table, in order]
    \* history
    last,             \* the interaction that just ran to completion
    acked,            \* [session -> the rankings of its last write to the repository]
    steps,            \* interactions so far
    faults            \* interactions so far that met a backend failure

matchVars == <<df_in, dir_in, ids_in, df_out, mpc>>
fileVars == <<remote_file, local_file>>
storeVars == <<st_rankings, st_repo, st_wrote, st_load_env, st_loaded, st_pc>>
sessionVars == <<github_repo, user_rankings, players_data, sleeper_players,
                 drafted_players, selected_user, shown, consensus>>
histVars == <<last, acked, steps, faults>>
vars == <<matchVars, fileVars, storeVars, sessionVars, histVars>>

(***************************************************************************)
(* Strings                                                                 *)
(***************************************************************************)
UpperChars == <<"A","B","C","D","E","F","G","H","I","J","K","L","M",
                "N","O","P","Q","R","S","T","U","V","W","X","Y","Z">>
LowerChars == <<"a","b","c","d","e","f","g","h","i","j","k","l","m",
                "n","o","p","q","r","s","t","u","v","w","x","y","z">>

LowerChar(c) ==
    IF \E i \in 1..Len(UpperChars) : UpperChars[i] = c
    THEN LowerChars[CHOOSE i \in 1..Len(UpperChars) : UpperChars[i] = c]
    ELSE c

\* str.lower()
Lower(s) == [i \in 1..Len(s) |-> LowerChar(s[i])]

RECURSIVE LStrip(_)
LStrip(s) == IF s # <<>> /\ Head(s) = " " THEN LStrip(Tail(s)) ELSE s

RECURSIVE RStrip(_)
RStrip(s) ==
    IF s # <<>> /\ s[Len(s)] = " " THEN RStrip(SubSeq(s, 1, Len(s) - 1)) ELSE s

\* str.strip()
Strip(s) == RStrip(LStrip(s))

\* str.replace(old, new): every non-overlapping occurrence, leftmost first
RECURSIVE Replace(_, _, _)
Replace(s, old, new) ==
    IF Len(s) < Len(old) THEN s
    ELSE IF SubSeq(s, 1, Len(old)) = old
         THEN new \o Replace(SubSeq(s, Len(old) + 1, Len(s)), old, new)
         ELSE <<Head(s)>> \o Replace(Tail(s), old, new)

(***************************************************************************)
(* Names of the source's tables                                            *)
(***************************************************************************)
JoshAllen == <<"J","o","s","h"," ","A","l","l","e","n">>
PatrickMahomesII == <<"P","a","t","r","i","c","k"," ","M","a","h","o","m","e","s"," ","I","I">>
PatrickMahomes == <<"P","a","t","r","i","c","k"," ","M","a","h","o","m","e","s">>
BrianThomasJr == <<"B","r","i","a","n"," ","T","h","o","m","a","s"," ","J","r",".">>
BrianThomas == <<"B","r","i","a","n"," ","T","h","o","m","a","s">>
MarvinHarrisonJr == <<"M","a","r","v","i","n"," ","H","a","r","r","i","s","o","n"," ","J","r",".">>
MarvinHarrison == <<"M","a","r","v","i","n"," ","H","a","r","r","i","s","o","n">>
SuffixJr == <<" ","J","r",".">>
SuffixII == <<" ","I","I">>
SuffixIII == <<" ","I","I","I">>

\* the value of an unset sleeper_id (None) and the override sentinel
NoneId == "None"
ManualOverrideId == "manual_override"

manual_drafted_players == <<JoshAllen>>

name_mappings ==
    (JoshAllen :> <<JoshAllen>>)
    @@ (PatrickMahomesII :> <<PatrickMahomes, PatrickMahomesII>>)
    @@ (BrianThomasJr :> <<BrianThomasJr, BrianThomas>>)
    @@ (MarvinHarrisonJr :> <<MarvinHarrisonJr, MarvinHarrison>>)

(***************************************************************************)
(* match_players_to_sleeper                                                *)
(*                                                                         *)
(* A directory is a sequence (the dict's iteration order) of               *)
(* [id, present, first_name, last_name]; present = FALSE is a falsy value  *)
(* (None or {}), which the loop skips.                                     *)
(***************************************************************************)
InSeq(x, s) == \E i \in 1..Len(s) : s[i] = x

\* f"{first_name} {last_name}".strip()
SleeperFullName(e) == Strip(e.first_name \o <<" ">> \o e.last_name)

\* line 213
DirectMatch(player_name, full) == Lower(player_name) = Lower(full)

\* lines 221-228
AliasMatch(player_name, full) ==
    /\ player_name \in DOMAIN name_mappings
    /\ \E k \in 1..Len(name_mappings[player_name]) :
           Lower(name_mappings[player_name][k]) = Lower(full)

\* lines 235-236
SuffixBase(s) ==
    Lower(Strip(Replace(Replace(Replace(s, SuffixJr, <<>>), SuffixII, <<>>),
                        SuffixIII, <<>>)))

\* line 238
SuffixMatch(player_name, full) == SuffixBase(player_name) = SuffixBase(full)

\* one pass of the loop body over a directory entry: the three tests are made
\* on the same entry before the loop moves to the next one
EntryMatches(player_name, e) ==
    /\ e.present
    /\ \/ DirectMatch(player_name, SleeperFullName(e))
       \/ AliasMatch(player_name, SleeperFullName(e))
       \/ SuffixMatch(player_name, SleeperFullName(e))

\* the loop of line 208 with its breaks: the first entry that matches, or 0
FirstMatch(player_name, sleeper_dir) ==
    IF \E i \in 1..Len(sleeper_dir) : EntryMatches(player_name, sleeper_dir[i])
    THEN CHOOSE i \in 1..Len(sleeper_dir) :
             /\ EntryMatches(player_name, sleeper_dir[i])
             /\ \A j \in 1..(i - 1) : ~EntryMatches(player_name, sleeper_dir[j])
    ELSE 0

\* the mutation of this kind of bug: the override test of line 201 is lost
MatchRowNoOverride(row, sleeper_dir, drafted_player_ids) ==
    LET player_name == Strip(row.PLAYER_NAME)
        i == FirstMatch(player_name, sleeper_dir)
    IN  IF i = 0
        THEN [row EXCEPT !.drafted = FALSE, !.sleeper_id = NoneId]
        ELSE [row EXCEPT !.drafted = sleeper_dir[i].id \in drafted_player_ids,
                         !.sleeper_id = sleeper_dir[i].id]

\* the body of the loop of line 196 for one row, after the resets of 180-181
MatchRow(row, sleeper_dir, drafted_player_ids) ==
    LET player_name == Strip(row.PLAYER_NAME)
        i == FirstMatch(player_name, sleeper_dir)
    IN  IF InSeq(player_name, manual_drafted_players)
        THEN [row EXCEPT !.drafted = TRUE, !.sleeper_id = ManualOverrideId]
        ELSE IF i = 0
        THEN [row EXCEPT !.drafted = FALSE, !.sleeper_id = NoneId]
        ELSE [row EXCEPT !.drafted = sleeper_dir[i].id \in drafted_player_ids,
                         !.sleeper_id = sleeper_dir[i].id]

match_players_to_sleeper(df, sleeper_dir, drafted_player_ids) ==
    [r \in 1..Len(df) |-> MatchRow(df[r], sleeper_dir, drafted_player_ids)]

(***************************************************************************)
(* The reconciler on bounded inputs                                        *)
(***************************************************************************)
MaxRows == 2
MaxDir == 2

BoNix == <<"B","o"," ","N","i","x">>
BoNixIII == <<"B","o"," ","N","i","x"," ","I","I","I">>

RankedNames == {JoshAllen, MarvinHarrisonJr, BoNix, BoNixIII}

Entry(id, first_name, last_name) ==
    [id |-> id, present |-> TRUE, first_name |-> first_name, last_name |-> last_name]

DirectoryPool ==
    { Entry("s1", <<"J","o","s","h">>, <<"A","l","l","e","n">>),
      Entry("s2", <<"M","a","r","v","i","n">>, <<"H","a","r","r","i","s","o","n">>),
      Entry("s3", <<"M","a","r","v","i","n">>,
                  <<"H","a","r","r","i","s","o","n"," ","J","r",".">>),
      Entry("s4", <<"M","a","r","v","i","n">>,
                  <<"H","a","r","r","i","s","o","n"," ","I","I">>),
      Entry("s5", <<"b","o">>, <<"n","i","x">>),
      Entry("s6", <<"B","o">>, <<"N","i","x"," ","I","I","I">>),
      [id |-> "s7", present |-> FALSE, first_name |-> <<>>, last_name |-> <<>>] }

SeqsUpTo(S, n) == UNION { [1..k -> S] : k \in 0..n }

\* a dict has one value per key
Directories ==
    { d \in SeqsUpTo(DirectoryPool, MaxDir) :
        \A i, j \in 1..Len(d) : i # j => d[i].id # d[j].id }

DraftedIdSets == { {}, {"s1", "s2", "s5"} }

\* a frame as load_players_data and an earlier refresh leave it: one row per
\* player of the ranking file
InputRow(name, rk, was) ==
    [PLAYER_NAME |-> name, RK |-> rk,
     drafted |-> was, sleeper_id |-> IF was THEN "s2" ELSE NoneId]

Frames ==
    UNION { { [r \in 1..k |-> InputRow(ns[r], r, w)] :
                ns \in { f \in [1..k -> RankedNames] :
                           \A i, j \in 1..k : i # j => f[i] # f[j] },
                w \in BOOLEAN } : k \in 1..MaxRows }

MatchInit ==
    /\ mpc = "call"
    /\ df_in \in Frames
    /\ dir_in \in Directories
    /\ ids_in \in DraftedIdSets
    /\ df_out = <<>>

CallMatch ==
    /\ mpc = "call"
    /\ df_out' = match_players_to_sleeper(df_in, dir_in, ids_in)
    /\ mpc' = "done"
    /\ UNCHANGED <<df_in, dir_in, ids_in>>


(***************************************************************************)
(* Ranking store: save_rankings_to_github, load_rankings_from_github and   *)
(* their local fallbacks                                                   *)
(*                                                                         *)
(* The in-memory value is a dict from the four user keys to lists of       *)
(* names: a function.  A file holds JSON text (a sequence of tokens) or is *)
(* Missing.  Each call meets an outcome of the backends: env.api is        *)
(* whether the calls on the repository succeed, env.disk whether open()    *)
(* of the local file does.  A call that loses the race on file.sha between *)
(* get_contents and update_file is one whose repository call fails.        *)
(***************************************************************************)
UserKeys == <<"nathan", "nathaniel", "jack", "kyle">>
Users == { UserKeys[i] : i \in 1..Len(UserKeys) }

\* the literal of lines 109-114, 136-141 and 144-149
EmptyRankings == [u \in Users |-> <<>>]

None == "None"
Repo == "Repo"
Missing == <<"missing">>

Tok(t, v) == [t |-> t, v |-> v]

RECURSIVE DumpList(_)
DumpList(names) ==
    IF names = <<>> THEN <<>>
    ELSE <<Tok("str", Head(names))>> \o DumpList(Tail(names))

RECURSIVE DumpItems(_, _)
DumpItems(keys, rankings) ==
    IF keys = <<>> THEN <<>>
    ELSE <<Tok("key", <<Head(keys)>>), Tok("[", <<>>)>>
         \o DumpList(rankings[Head(keys)]) \o <<Tok("]", <<>>)>>
         \o DumpItems(Tail(keys), rankings)

\* json.dumps of the rankings dict
JsonDumps(rankings) ==
    <<Tok("{", <<>>)>> \o DumpItems(UserKeys, rankings) \o <<Tok("}", <<>>)>>

Raise == [raised |-> TRUE, value |-> <<>>]
Return(v) == [raised |-> FALSE, value |-> v]

\* the strings of a JSON array body, up to its "]": [ok, value, rest]
RECURSIVE ParseList(_)
ParseList(text) ==
    IF text = <<>> THEN [ok |-> FALSE, value |-> <<>>, rest |-> <<>>]
    ELSE IF Head(text).t = "]" THEN [ok |-> TRUE, value |-> <<>>, rest |-> Tail(text)]
    ELSE IF Head(text).t = "str"
         THEN LET r == ParseList(Tail(text))
              IN  [r EXCEPT !.value = <<Head(text).v>> \o r.value]
         ELSE [ok |-> FALSE, value |-> <<>>, rest |-> <<>>]

\* the members of a JSON object, up to its "}": [ok, value], value a function
RECURSIVE ParseItems(_)
ParseItems(text) ==
    IF text = <<>> THEN [ok |-> FALSE, value |-> <<>>]
    ELSE IF Head(text).t = "}" THEN [ok |-> Tail(text) = <<>>, value |-> <<>>]
    ELSE IF Len(text) >= 2 /\ text[1].t = "key" /\ text[2].t = "["
         THEN LET l == ParseList(SubSeq(text, 3, Len(text)))
                  r == ParseItems(l.rest)
              IN  IF l.ok /\ r.ok
                  THEN [ok |-> TRUE,
                        value |-> (text[1].v[1] :> l.value) @@ r.value]
                  ELSE [ok |-> FALSE, value |-> <<>>]
         ELSE [ok |-> FALSE, value |-> <<>>]

\* json.loads: the object, or JSONDecodeError
JsonLoads(text) ==
    IF text # <<>> /\ Head(text).t = "{" /\ ParseItems(Tail(text)).ok
    THEN Return(ParseItems(Tail(text)).value)
    ELSE Raise

\* file.content as the contents API returns it, and base64.b64decode of it
B64Encode(text) == [i \in 1..Len(text) |-> [b64 |-> text[i]]]
B64Decode(content) == [i \in 1..Len(content) |-> content[i].b64]

\* the try body of save_rankings_local (lines 124-125)
LocalWrite(rankings, local, env) ==
    IF env.disk THEN Return(JsonDumps(rankings)) ELSE Raise

\* the mutation of this kind of bug: no except clause around the write
save_rankings_local_unguarded(rankings, local, env) ==
    LET w == LocalWrite(rankings, local, env)
    IN  [local |-> IF w.raised THEN local ELSE w.value, wrote |-> ~w.raised,
         raised |-> w.raised]

\* save_rankings_local: [local, wrote, raised]
save_rankings_local(rankings, local, env) ==
    LET w == LocalWrite(rankings, local, env)
    IN  [local |-> IF w.raised THEN local ELSE w.value, wrote |-> ~w.raised,
         raised |-> FALSE]

\* the mutation of this kind of bug: a write that merges, keeping the stored
\* list of a user whose list in the mapping is empty
RemoteWriteMerge(rankings, remote, env) ==
    LET old == IF remote # Missing /\ ~JsonLoads(remote).raised
               THEN JsonLoads(remote).value
               ELSE EmptyRankings
        merged == [u \in Users |-> IF rankings[u] = <<>> THEN old[u] ELSE rankings[u]]
    IN  IF env.api THEN Return(JsonDumps(merged)) ELSE Raise

\* lines 66-84: get_contents, then update_file, or create_file when either
\* raised; create_file of a file that exists is refused
RemoteWrite(rankings, remote, env) ==
    LET rankings_json == JsonDumps(rankings)
        got == env.api /\ remote # Missing
        updated == got /\ env.api
        created == ~updated /\ env.api /\ remote = Missing
    IN  IF updated \/ created THEN Return(rankings_json) ELSE Raise

\* save_rankings_to_github: [remote, local, wrote, raised]
save_rankings_to_github(repo, rankings, remote, local, env) ==
    LET loc == save_rankings_local(rankings, local, env)
        rem == RemoteWrite(rankings, remote, env)
    IN  IF repo = None
        THEN [remote |-> remote, local |-> loc.local,
              wrote |-> IF loc.wrote THEN "local" ELSE "none",
              raised |-> loc.raised]
        ELSE IF ~rem.raised
        THEN [remote |-> rem.value, local |-> local, wrote |-> "remote",
              raised |-> FALSE]
        ELSE [remote |-> remote, local |-> loc.local,
              wrote |-> IF loc.wrote THEN "local" ELSE "none",
              raised |-> loc.raised]

\* the try body of load_rankings_local (lines 132-141)
LocalRead(local, env) ==
    IF local # Missing
    THEN IF env.disk THEN JsonLoads(local) ELSE Raise
    ELSE Return(EmptyRankings)

\* the mutation of this kind of bug: no except clause around the read
load_rankings_local_unguarded(local, env) == LocalRead(local, env)

load_rankings_local(local, env) ==
    IF LocalRead(local, env).raised
    THEN Return(EmptyRankings)
    ELSE LocalRead(local, env)

\* the inner try body of load_rankings_from_github (lines 103-106)
RemoteRead(remote, env) ==
    IF env.api /\ remote # Missing
    THEN JsonLoads(B64Decode(B64Encode(remote)))
    ELSE Raise

load_rankings_from_github(repo, remote, local, env) ==
    LET inner == IF repo = None
                 THEN load_rankings_local(local, env)
                 ELSE IF RemoteRead(remote, env).raised
                      THEN Return(EmptyRankings)
                      ELSE RemoteRead(remote, env)
    IN  IF inner.raised THEN load_rankings_local(local, env) ELSE inner

Envs == [api : BOOLEAN, disk : BOOLEAN]
Healthy == [api |-> TRUE, disk |-> TRUE]

(***************************************************************************)
(* The store on bounded inputs: one save, then one load                    *)
(***************************************************************************)
MaxStoreLen == 1

StoreNames == {JoshAllen, BoNix}

StoreLists ==
    { l \in SeqsUpTo(StoreNames, MaxStoreLen) :
        \A i, j \in 1..Len(l) : i # j => l[i] # l[j] }

StoreRankings == [Users -> StoreLists]

\* a file that an earlier session wrote, one that does not decode, or none
OldRankings == [EmptyRankings EXCEPT !["kyle"] = <<BoNix>>]
Garbage == <<Tok("{", <<>>), Tok("key", <<"nathan">>)>>
StoreFiles == {Missing, Garbage, JsonDumps(OldRankings)}

NotLoaded == [raised |-> FALSE, value |-> <<>>]

StoreInit ==
    /\ st_rankings \in StoreRankings
    /\ st_repo \in {Repo, None}
    /\ remote_file \in StoreFiles
    /\ local_file \in StoreFiles
    /\ st_wrote = "none"
    /\ st_load_env = Healthy
    /\ st_loaded = NotLoaded
    /\ st_pc = "start"

\* save_rankings_to_github(repo) of the session's rankings
StoreSave(env) ==
    /\ st_pc = "start"
    /\ LET r == save_rankings_to_github(st_repo, st_rankings, remote_file,
                                        local_file, env)
       IN  /\ remote_file' = r.remote
           /\ local_file' = r.local
           /\ st_wrote' = r.wrote
    /\ st_pc' = "saved"
    /\ UNCHANGED <<st_rankings, st_repo, st_load_env, st_loaded>>

\* load_rankings_from_github(repo), first thing or right after the save
StoreLoad(env) ==
    /\ st_pc \in {"start", "saved"}
    /\ st_loaded' = load_rankings_from_github(st_repo, remote_file, local_file, env)
    /\ st_load_env' = env
    /\ st_pc' = IF st_pc = "start" THEN "loaded" ELSE "reloaded"
    /\ UNCHANGED <<st_rankings, st_repo, st_wrote, fileVars>>

StoreNext ==
    \/ \E env \in Envs : StoreSave(env) /\ UNCHANGED <<matchVars, sessionVars, histVars>>
    \/ \E env \in Envs : StoreLoad(env) /\ UNCHANGED <<matchVars, sessionVars, histVars>>

MatchIdle ==
    /\ df_in = <<>>
    /\ dir_in = <<>>
    /\ ids_in = {}
    /\ df_out = <<>>
    /\ mpc = "idle"


(***************************************************************************)
(* main(): lists and their mutations                                       *)
(***************************************************************************)
Range(l) == { l[i] : i \in 1..Len(l) }

\* list.index(x)
IndexOf(l, x) ==
    CHOOSE i \in 1..Len(l) : l[i] = x /\ \A j \in 1..(i - 1) : l[j] # x

\* list.remove(x), guarded by "if x in list"
ListRemove(l, x) ==
    IF InSeq(x, l)
    THEN SubSeq(l, 1, IndexOf(l, x) - 1) \o SubSeq(l, IndexOf(l, x) + 1, Len(l))
    ELSE l

\* list.insert(idx, x): an index past the end appends
ListInsert(l, idx, x) ==
    LET k == IF idx < Len(l) THEN idx ELSE Len(l)
    IN  SubSeq(l, 1, k) \o <<x>> \o SubSeq(l, k + 1, Len(l))

\* sorted(..., key=...) and list.sort(key=...): stable, on records with field k
RECURSIVE InsertByKey(_, _)
InsertByKey(sorted, x) ==
    IF sorted = <<>> THEN <<x>>
    ELSE IF x.k < Head(sorted).k THEN <<x>> \o sorted
    ELSE <<Head(sorted)>> \o InsertByKey(Tail(sorted), x)

RECURSIVE StableSort(_)
StableSort(l) ==
    IF l = <<>> THEN <<>>
    ELSE InsertByKey(StableSort(SubSeq(l, 1, Len(l) - 1)), l[Len(l)])

\* available_players['PLAYER NAME'].values (line 440)
AvailableNames(pd) == { pd[i].PLAYER_NAME : i \in { j \in 1..Len(pd) : ~pd[j].drafted } }

\* the mutation of this kind of bug: the filter of line 452 is lost
ValidRankingsUnfiltered(current_rankings, pd) == current_rankings

\* line 452
ValidRankings(current_rankings, pd) ==
    LET Keep(name) == name \in AvailableNames(pd)
    IN  SelectSeq(current_rankings, Keep)

\* the mutation of this kind of bug: reversed() whose result is dropped
ReverseListDropped(l) == l

\* list.reverse() (line 558)
RECURSIVE ReverseList(_)
ReverseList(l) ==
    IF l = <<>> THEN <<>> ELSE ReverseList(Tail(l)) \o <<Head(l)>>

\* random.shuffle (line 551): some permutation of the list
Shuffles(l) ==
    { [i \in 1..Len(l) |-> l[p[i]]] :
        p \in { q \in [1..Len(l) -> 1..Len(l)] :
                  \A i, j \in 1..Len(l) : i # j => q[i] # q[j] } }

\* lines 565-575: the names that have an available row, by that row's RK
RECURSIVE RankedWithEcr(_, _)
RankedWithEcr(current, pd) ==
    IF current = <<>> THEN <<>>
    ELSE LET rows == { i \in 1..Len(pd) :
                         ~pd[i].drafted /\ pd[i].PLAYER_NAME = Head(current) }
             first == CHOOSE i \in rows : \A j \in rows : i <= j
         IN  (IF rows = {} THEN <<>>
              ELSE <<[k |-> pd[first].RK, v |-> Head(current)]>>)
             \o RankedWithEcr(Tail(current), pd)

CopyFromEcr(current, pd) ==
    LET srt == StableSort(RankedWithEcr(current, pd))
    IN  [i \in 1..Len(srt) |-> srt[i].v]

\* lines 465-495: the form's widgets, row by row, give new_positions in the
\* dict's order: req[i] is [new_rank, remove] of row i
RECURSIVE NewPositions(_, _, _)
NewPositions(valid, req, i) ==
    IF i > Len(valid) THEN <<>>
    ELSE (IF req[i].remove THEN <<[k |-> -1, v |-> valid[i]]>>
          ELSE IF req[i].new_rank # i
               THEN <<[k |-> req[i].new_rank - 1, v |-> valid[i]]>>
               ELSE <<>>)
         \o NewPositions(valid, req, i + 1)

RECURSIVE RemoveAll(_, _)
RemoveAll(l, moved) ==
    IF moved = <<>> THEN l ELSE RemoveAll(ListRemove(l, Head(moved).v), Tail(moved))

RECURSIVE InsertAll(_, _)
InsertAll(l, moved) ==
    IF moved = <<>> THEN l
    ELSE InsertAll(ListInsert(l, Head(moved).k, Head(moved).v), Tail(moved))

\* the mutation of this kind of bug: the moves inserted in the dict's order,
\* not in the order of their targets
ApplyChangesUnsorted(current, new_positions) ==
    LET IsRemoval(e) == e.k = -1
        IsMove(e) == e.k # -1
        kept == RemoveAll(current, SelectSeq(new_positions, IsRemoval))
        reorder_changes == SelectSeq(new_positions, IsMove)
    IN  IF reorder_changes = <<>> THEN kept
        ELSE InsertAll(RemoveAll(kept, reorder_changes), reorder_changes)

\* lines 504-529
ApplyChanges(current, new_positions) ==
    LET IsRemoval(e) == e.k = -1
        IsMove(e) == e.k # -1
        kept == RemoveAll(current, SelectSeq(new_positions, IsRemoval))
        reorder_changes == SelectSeq(new_positions, IsMove)
    IN  IF reorder_changes = <<>> THEN kept
        ELSE InsertAll(RemoveAll(kept, reorder_changes), StableSort(reorder_changes))

(***************************************************************************)
(* main(): the consensus table (lines 644-690)                             *)
(***************************************************************************)
\* all_ranked_players
AllRanked(ur) == UNION { Range(ur[u]) : u \in DOMAIN ur }

\* the rows of players_data with this name
RowsNamed(pd, name) == { i \in 1..Len(pd) : pd[i].PLAYER_NAME = name }

\* line 658: the name has a row and the first one is not drafted
Eligible(pd, name) ==
    /\ RowsNamed(pd, name) # {}
    /\ ~pd[CHOOSE i \in RowsNamed(pd, name) : \A j \in RowsNamed(pd, name) : i <= j].drafted

\* the mutation of this kind of bug: the average formatted without a decimal
\* (":.0f"), in tenths
FormatUnits(total, count) ==
    LET q == total \div count
        r == total % count
    IN  IF 2 * r < count THEN 10 * q
        ELSE IF 2 * r > count THEN 10 * (q + 1)
        ELSE IF q % 2 = 0 THEN 10 * q ELSE 10 * (q + 1)

\* f"{avg_rank:.1f}": total / count to one decimal, ties to the even digit,
\* in tenths
FormatTenths(total, count) ==
    LET q == (10 * total) \div count
        r == (10 * total) % count
    IN  IF 2 * r < count THEN q
        ELSE IF 2 * r > count THEN q + 1
        ELSE IF q % 2 = 0 THEN q ELSE q + 1

\* the mutation of this kind of bug: the 0-based index taken as the rank
UserRankZeroBased(rankings, name) ==
    IF InSeq(name, rankings) THEN IndexOf(rankings, name) - 1 ELSE 0

\* lines 666-671: the user's rank of the name, 0 for None
UserRank(rankings, name) ==
    IF InSeq(name, rankings) THEN IndexOf(rankings, name) ELSE 0

RECURSIVE SumRanks(_, _, _)
SumRanks(keys, ur, name) ==
    IF keys = <<>> THEN 0
    ELSE UserRank(ur[Head(keys)], name) + SumRanks(Tail(keys), ur, name)

\* lines 662-687: one row of consensus_data; k is the sort key of line 690
ConsensusRow(ur, name) ==
    LET count == Cardinality({ u \in Users : InSeq(name, ur[u]) })
        total == SumRanks(UserKeys, ur, name)
    IN  [Player |-> name,
         ranks |-> [u \in Users |-> UserRank(ur[u], name)],
         total |-> total,
         RankedBy |-> count,
         AvgRank |-> FormatTenths(total, count),
         k |-> FormatTenths(total, count)]

RECURSIVE ConsensusData(_, _, _)
ConsensusData(order, ur, pd) ==
    IF order = <<>> THEN <<>>
    ELSE (IF Eligible(pd, Head(order)) THEN <<ConsensusRow(ur, Head(order))>>
          ELSE <<>>)
         \o ConsensusData(Tail(order), ur, pd)

\* the orders in which a set may be iterated
SetOrders(S) ==
    { o \in [1..Cardinality(S) -> S] :
        \A i, j \in 1..Cardinality(S) : i # j => o[i] # o[j] }

\* the tables a run may show (line 690: a stable sort of the rows): the set is
\* iterated in any order, so the rows reach the sort as those of one order,
\* permuted
ConsensusViews(ur, pd) ==
    LET data == ConsensusData(CHOOSE o \in SetOrders(AllRanked(ur)) : TRUE, ur, pd)
    IN  { StableSort(l) : l \in Shuffles(data) }

(***************************************************************************)
(* main(): sessions                                                        *)
(***************************************************************************)
Sessions == {"A", "B"}

MaxSteps == 2
MaxEdits == 1
MaxFaults == 1

\* load_players_data: the ranking file, with the flags of lines 341-342
CsvRow(name, rk) ==
    [PLAYER_NAME |-> name, RK |-> rk, drafted |-> FALSE, sleeper_id |-> NoneId]
BaseData == <<CsvRow(JoshAllen, 1), CsvRow(BoNix, 2), CsvRow(MarvinHarrisonJr, 3)>>

\* what the two Sleeper calls may answer; a failed call is ok = FALSE
LiveDirectory ==
    <<Entry("s5", <<"b","o">>, <<"n","i","x">>),
      Entry("s3", <<"M","a","r","v","i","n">>,
                  <<"H","a","r","r","i","s","o","n"," ","J","r",".">>)>>
Pick(id) == [player_id |-> id]
DirectoryAnswers ==
    { [ok |-> FALSE, body |-> <<>>], [ok |-> TRUE, body |-> LiveDirectory] }
PicksAnswers ==
    { [ok |-> FALSE, body |-> <<>>],
      [ok |-> TRUE, body |-> <<>>],
      [ok |-> TRUE, body |-> <<Pick("s5"), Pick("")>>],
      [ok |-> TRUE, body |-> <<Pick("s5"), Pick("s3")>>] }

\* load_sleeper_players and get_draft_picks: {} and [] when the call failed
load_sleeper_players(answer) == IF answer.ok THEN answer.body ELSE <<>>
get_draft_picks(answer) == IF answer.ok THEN answer.body ELSE <<>>

\* line 315
DraftedIds(picks) ==
    { picks[i].player_id : i \in { j \in 1..Len(picks) : picks[j].player_id # "" } }

\* the document an earlier deployment left in the repository
SeedRankings ==
    [nathan |-> <<BoNix, MarvinHarrisonJr>>, nathaniel |-> <<>>,
     jack |-> <<MarvinHarrisonJr, BoNix>>, kyle |-> <<JoshAllen, BoNix>>]

NoAck == <<>>
Interaction(op, s, fetch_ok, wrote, env, payload, before, raised) ==
    [op |-> op, s |-> s, fetch_ok |-> fetch_ok, wrote |-> wrote, env |-> env,
     payload |-> payload, before |-> before, raised |-> raised]

\* the mutation of this kind of bug: the filter of line 453 applied to every
\* user's list
DisplayPruneAll(s, ur, pd, sel) ==
    LET open == AvailableNames(pd) # {}
        valid == ValidRankings(ur[sel], pd)
        ur2 == IF open THEN [u \in DOMAIN ur |-> ValidRankings(ur[u], pd)] ELSE ur
    IN  /\ user_rankings' = [user_rankings EXCEPT ![s] = ur2]
        /\ shown' = [shown EXCEPT ![s] = IF open THEN valid ELSE <<>>]
        /\ \E view \in (IF open THEN ConsensusViews(ur2, pd) ELSE {<<>>}) :
               consensus' = [consensus EXCEPT ![s] = view]

\* the rest of a script run: tab 2 up to the editor (lines 438-453), which
\* writes the filtered list back, and tab 3; with no available player the run
\* returns at line 444 and shows neither
Display(s, ur, pd, sel) ==
    LET open == AvailableNames(pd) # {}
        valid == ValidRankings(ur[sel], pd)
        ur2 == IF open THEN [ur EXCEPT ![sel] = valid] ELSE ur
    IN  /\ user_rankings' = [user_rankings EXCEPT ![s] = ur2]
        /\ shown' = [shown EXCEPT ![s] = IF open THEN valid ELSE <<>>]
        /\ \E view \in (IF open THEN ConsensusViews(ur2, pd) ELSE {<<>>}) :
               consensus' = [consensus EXCEPT ![s] = view]

EditorOpen(s) == AvailableNames(players_data[s]) # {}

\* the backend outcomes a call of this session can tell apart (without a
\* repository no repository call is made; the disk is touched only after one
\* failed), within the budget of failures
Meets(s, env) ==
    /\ IF github_repo[s] = None THEN env.api ELSE (env.api => env.disk)
    /\ env = Healthy \/ faults < MaxFaults

Count(env) == faults' = IF env = Healthy THEN faults ELSE faults + 1

\* the first script run of the sessions SS (lines 264-275, 336-343)
SessionInit(SS) ==
    /\ remote_file \in {Missing, JsonDumps(SeedRankings)}
    /\ local_file = Missing
    /\ github_repo \in [Sessions -> {Repo, None}]
    /\ \A s \in Sessions \ SS : github_repo[s] = None
    /\ players_data = [s \in Sessions |-> BaseData]
    /\ sleeper_players = [s \in Sessions |-> <<>>]
    /\ drafted_players = [s \in Sessions |-> {}]
    /\ selected_user = [s \in Sessions |-> UserKeys[1]]
    /\ user_rankings =
         [s \in Sessions |->
            load_rankings_from_github(github_repo[s], remote_file, local_file,
                                      Healthy).value]
    /\ shown = [s \in Sessions |-> ValidRankings(user_rankings[s][UserKeys[1]], BaseData)]
    /\ consensus \in
         [Sessions -> UNION { ConsensusViews(user_rankings[s], BaseData) :
                              s \in Sessions }]
    /\ \A s \in Sessions : consensus[s] \in ConsensusViews(user_rankings[s], BaseData)
    /\ last = Interaction("start", "A", TRUE, "nosave", Healthy, <<>>, <<>>, FALSE)
    /\ acked = [s \in Sessions |-> NoAck]
    /\ steps = 0
    /\ faults = 0

\* a new browser session of the same deployment (lines 264-275, 336-343)
NewSession(s, env) ==
    /\ steps < MaxSteps
    /\ Meets(s, env)
    /\ players_data' = [players_data EXCEPT ![s] = BaseData]
    /\ sleeper_players' = [sleeper_players EXCEPT ![s] = <<>>]
    /\ drafted_players' = [drafted_players EXCEPT ![s] = {}]
    /\ selected_user' = [selected_user EXCEPT ![s] = UserKeys[1]]
    /\ Display(s, load_rankings_from_github(github_repo[s], remote_file, local_file,
                                            env).value,
               BaseData, UserKeys[1])
    /\ last' = Interaction("new_session", s, TRUE, "nosave", env, <<>>, <<>>, FALSE)
    /\ steps' = steps + 1
    /\ Count(env)
    /\ UNCHANGED <<fileVars, acked, github_repo, matchVars, storeVars>>

\* the sidebar selectbox
SelectUser(s, u) ==
    /\ steps < MaxSteps
    /\ u # selected_user[s]
    /\ selected_user' = [selected_user EXCEPT ![s] = u]
    /\ Display(s, user_rankings[s], players_data[s], u)
    /\ last' = Interaction("select_user", s, TRUE, "nosave", Healthy, <<>>, <<>>, FALSE)
    /\ steps' = steps + 1
    /\ UNCHANGED <<fileVars, acked, faults, github_repo, players_data, sleeper_players,
                   drafted_players, matchVars, storeVars>>

\* "Reload Rankings from GitHub" (lines 302-305)
ReloadRankings(s, env) ==
    /\ steps < MaxSteps
    /\ Meets(s, env)
    /\ Display(s, load_rankings_from_github(github_repo[s], remote_file,
                                            local_file, env).value,
               players_data[s], selected_user[s])
    /\ last' = Interaction("reload", s, TRUE, "nosave", env, <<>>, <<>>, FALSE)
    /\ steps' = steps + 1
    /\ Count(env)
    /\ UNCHANGED <<fileVars, acked, github_repo, players_data, sleeper_players,
                   drafted_players, selected_user, matchVars, storeVars>>

\* "Refresh Draft Data" (lines 308-326)
RefreshDraft(s, directory, picks) ==
    /\ steps < MaxSteps
    /\ sleeper_players' = [sleeper_players EXCEPT ![s] = load_sleeper_players(directory)]
    /\ drafted_players' =
         [drafted_players EXCEPT ![s] = DraftedIds(get_draft_picks(picks))]
    /\ players_data' =
         [players_data EXCEPT
            ![s] = match_players_to_sleeper(players_data[s], sleeper_players'[s],
                                            drafted_players'[s])]
    /\ Display(s, user_rankings[s], players_data'[s], selected_user[s])
    /\ last' = Interaction("refresh", s, directory.ok /\ picks.ok, "nosave",
                           Healthy, <<>>, <<>>, FALSE)
    /\ steps' = steps + 1
    /\ UNCHANGED <<fileVars, acked, faults, github_repo, selected_user, matchVars,
                   storeVars>>

\* the mutation of this kind of bug: the save runs before the handler stores
\* the new list
MutateSaveBeforeSet(s, op, new_list, env) ==
    LET sel == selected_user[s]
        ur == [user_rankings[s] EXCEPT ![sel] = new_list]
        r == save_rankings_to_github(github_repo[s], user_rankings[s], remote_file,
                                     local_file, env)
    IN  /\ steps < MaxSteps
        /\ EditorOpen(s)
        /\ Meets(s, env)
        /\ Count(env)
        /\ remote_file' = r.remote
        /\ local_file' = r.local
        /\ acked' = IF r.wrote = "remote" THEN [acked EXCEPT ![s] = ur] ELSE acked
        /\ IF r.raised
           THEN /\ user_rankings' = [user_rankings EXCEPT ![s] = ur]
                /\ UNCHANGED <<shown, consensus>>
           ELSE Display(s, ur, players_data[s], sel)
        /\ last' = Interaction(op, s, TRUE, r.wrote, env, JsonDumps(ur),
                                user_rankings[s][sel], r.raised)
        /\ steps' = steps + 1
        /\ UNCHANGED <<github_repo, players_data, sleeper_players, drafted_players,
                       selected_user, matchVars, storeVars>>

\* a button of the editor: the run filters the list (line 453), the handler
\* sets the selected user's list, saves the whole dict and reruns the script;
\* an exception out of the save would end the run before st.rerun()
Mutate(s, op, new_list, env) ==
    LET sel == selected_user[s]
        ur == [user_rankings[s] EXCEPT ![sel] = new_list]
        r == save_rankings_to_github(github_repo[s], ur, remote_file, local_file, env)
    IN  /\ steps < MaxSteps
        /\ EditorOpen(s)
        /\ Meets(s, env)
        /\ Count(env)
        /\ remote_file' = r.remote
        /\ local_file' = r.local
        /\ acked' = IF r.wrote = "remote" THEN [acked EXCEPT ![s] = ur] ELSE acked
        /\ IF r.raised
           THEN /\ user_rankings' = [user_rankings EXCEPT ![s] = ur]
                /\ UNCHANGED <<shown, consensus>>
           ELSE Display(s, ur, players_data[s], sel)
        /\ last' = Interaction(op, s, TRUE, r.wrote, env, JsonDumps(ur),
                                user_rankings[s][sel], r.raised)
        /\ steps' = steps + 1
        /\ UNCHANGED <<github_repo, players_data, sleeper_players, drafted_players,
                       selected_user, matchVars, storeVars>>

\* the list the editor's buttons act on
Current(s) == ValidRankings(user_rankings[s][selected_user[s]], players_data[s])

\* the requests the form can submit with at most MaxEdits rows touched
Requests(n) ==
    { req \in [1..n -> [new_rank : 1..n, remove : BOOLEAN]] :
        Cardinality({ i \in 1..n : req[i].remove \/ req[i].new_rank # i }) <= MaxEdits }

\* "Apply Changes" (lines 504-535)
SubmitChanges(s, env) ==
    /\ steps < MaxSteps
    /\ Current(s) # <<>>
    /\ \E req \in Requests(Len(Current(s))) :
         /\ NewPositions(Current(s), req, 1) # <<>>
         /\ Mutate(s, "apply", ApplyChanges(Current(s), NewPositions(Current(s), req, 1)),
                   env)

\* "Clear All Rankings" (lines 537-541)
ClearAll(s, env) ==
    /\ steps < MaxSteps
    /\ Current(s) # <<>>
    /\ Mutate(s, "clear", <<>>, env)

\* "Randomize Order" (lines 548-554)
Randomize(s, env) ==
    /\ steps < MaxSteps
    /\ Current(s) # <<>>
    /\ \E l \in Shuffles(Current(s)) : Mutate(s, "randomize", l, env)

\* "Reverse Order" (lines 557-560)
Reverse(s, env) ==
    /\ steps < MaxSteps
    /\ Current(s) # <<>>
    /\ Mutate(s, "reverse", ReverseList(Current(s)), env)

\* "Copy from ECR" (lines 563-577)
CopyFromECRButton(s, env) ==
    /\ steps < MaxSteps
    /\ Current(s) # <<>>
    /\ Mutate(s, "copy_ecr", CopyFromEcr(Current(s), players_data[s]), env)

\* the mutation of this kind of bug: the add buttons are shown for ranked
\* players too (the filter of lines 614-616 is lost)
AddPlayerUnfiltered(s, env) ==
    /\ steps < MaxSteps
    /\ \E name \in AvailableNames(players_data[s]) :
          Mutate(s, "add", Append(Current(s), name), env)

\* an add button of an unranked available player (lines 613-633)
AddPlayer(s, env) ==
    /\ steps < MaxSteps
    /\ \E name \in AvailableNames(players_data[s]) :
          /\ ~InSeq(name, Current(s))
          /\ Mutate(s, "add", Append(Current(s), name), env)

\* one interaction of session s
Interact(s) ==
    \/ \E env \in Envs : NewSession(s, env)
    \/ \E u \in Users : SelectUser(s, u)
    \/ \E env \in Envs : ReloadRankings(s, env)
    \/ \E directory \in DirectoryAnswers, picks \in PicksAnswers :
          RefreshDraft(s, directory, picks)
    \/ \E env \in Envs : SubmitChanges(s, env)
    \/ \E env \in Envs : ClearAll(s, env)
    \/ \E env \in Envs : Randomize(s, env)
    \/ \E env \in Envs : Reverse(s, env)
    \/ \E env \in Envs : CopyFromECRButton(s, env)
    \/ \E env \in Envs : AddPlayer(s, env)

\* one browser session
AppNext == Interact("A")

\* two browser sessions of one deployment
SharedNext == \E s \in Sessions : Interact(s)

StoreOff ==
    /\ st_rankings = EmptyRankings
    /\ st_repo = None
    /\ st_wrote = "none"
    /\ st_load_env = Healthy
    /\ st_loaded = NotLoaded
    /\ st_pc = "idle"

AppIdle ==
    /\ github_repo = [s \in Sessions |-> None]
    /\ user_rankings = [s \in Sessions |-> EmptyRankings]
    /\ players_data = [s \in Sessions |-> BaseData]
    /\ sleeper_players = [s \in Sessions |-> <<>>]
    /\ drafted_players = [s \in Sessions |-> {}]
    /\ selected_user = [s \in Sessions |-> UserKeys[1]]
    /\ shown = [s \in Sessions |-> <<>>]
    /\ consensus = [s \in Sessions |-> <<>>]
    /\ last = Interaction("start", "A", TRUE, "nosave", Healthy, <<>>, <<>>, FALSE)
    /\ acked = [s \in Sessions |-> NoAck]
    /\ steps = 0
    /\ faults = 0

FilesIdle == remote_file = Missing /\ local_file = Missing

MatchNext == CallMatch /\ UNCHANGED <<fileVars, storeVars, sessionVars, histVars>>

InitMatch == MatchInit /\ FilesIdle /\ StoreOff /\ AppIdle
SpecMatch == InitMatch /\ [][MatchNext]_vars

InitStore == StoreInit /\ MatchIdle /\ AppIdle
SpecStore == InitStore /\ [][StoreNext]_vars

Init == SessionInit({"A"}) /\ MatchIdle /\ StoreOff
Spec == Init /\ [][AppNext]_vars

\* two sessions of a deployment with the repository configured and seeded
InitShared ==
    /\ SessionInit(Sessions)
    /\ github_repo = [s \in Sessions |-> Repo]
    /\ remote_file # Missing
    /\ MatchIdle
    /\ StoreOff
SpecShared == InitShared /\ [][SharedNext]_vars

(***************************************************************************)
(* Tab 3 on bounded inputs: the consensus table of any four lists          *)
(***************************************************************************)
MaxListLen == 2

\* the lists without duplicates of at most MaxListLen names of the file
ConsensusLists ==
    { l \in SeqsUpTo({ BaseData[i].PLAYER_NAME : i \in 1..Len(BaseData) }, MaxListLen) :
        \A i, j \in 1..Len(l) : i # j => l[i] # l[j] }

InitConsensus ==
    /\ MatchIdle
    /\ FilesIdle
    /\ StoreOff
    /\ github_repo = [s \in Sessions |-> None]
    /\ \E m \in [Users -> ConsensusLists] : user_rankings = [s \in Sessions |-> m]
    /\ players_data = [s \in Sessions |-> BaseData]
    /\ sleeper_players = [s \in Sessions |-> <<>>]
    /\ drafted_players = [s \in Sessions |-> {}]
    /\ selected_user = [s \in Sessions |-> UserKeys[1]]
    /\ shown = [s \in Sessions |-> <<>>]
    /\ consensus = [s \in Sessions |-> <<>>]
    /\ last = Interaction("start", "A", TRUE, "nosave", Healthy, <<>>, <<>>, FALSE)
    /\ acked = [s \in Sessions |-> NoAck]
    /\ steps = 0
    /\ faults = 0

\* lines 640-690 of one run of session A
RenderConsensus ==
    /\ steps = 0
    /\ \E view \in ConsensusViews(user_rankings["A"], players_data["A"]) :
          consensus' = [consensus EXCEPT !["A"] = view]
    /\ last' = Interaction("render", "A", TRUE, "nosave", Healthy, <<>>, <<>>, FALSE)
    /\ steps' = 1
    /\ UNCHANGED <<matchVars, fileVars, storeVars, github_repo, user_rankings,
                   players_data, sleeper_players, drafted_players, selected_user,
                   shown, acked, faults>>

SpecConsensus == InitConsensus /\ [][RenderConsensus]_vars

(***************************************************************************)
(* The reorder form on bounded inputs: any list, any submitted form        *)
(***************************************************************************)
MaxFormLen == 3

FormNames == <<JoshAllen, BoNix, MarvinHarrisonJr, PatrickMahomesII, BrianThomasJr>>

\* a rankings file with the first MaxFormLen of these players, none drafted
FormData == [i \in 1..MaxFormLen |-> CsvRow(FormNames[i], i)]

\* the lists without duplicates of these players
FormLists ==
    { l \in SeqsUpTo({ FormNames[i] : i \in 1..MaxFormLen }, MaxFormLen) :
        \A i, j \in 1..Len(l) : i # j => l[i] # l[j] }

\* what the n rows of the form can hold: a rank in 1..n and a checkbox each
FormRequests(n) == [1..n -> [new_rank : 1..n, remove : BOOLEAN]]

InitForm ==
    /\ MatchIdle
    /\ FilesIdle
    /\ StoreOff
    /\ github_repo = [s \in Sessions |-> None]
    /\ \E l \in FormLists :
          user_rankings = [s \in Sessions |-> [EmptyRankings EXCEPT ![UserKeys[1]] = l]]
    /\ players_data = [s \in Sessions |-> FormData]
    /\ sleeper_players = [s \in Sessions |-> <<>>]
    /\ drafted_players = [s \in Sessions |-> {}]
    /\ selected_user = [s \in Sessions |-> UserKeys[1]]
    /\ shown = [s \in Sessions |-> user_rankings[s][UserKeys[1]]]
    /\ consensus = [s \in Sessions |-> <<>>]
    /\ last = Interaction("start", "A", TRUE, "nosave", Healthy, <<>>, <<>>, FALSE)
    /\ acked = [s \in Sessions |-> NoAck]
    /\ steps = 0
    /\ faults = 0

\* "Apply Changes" of session A with any form (lines 465-535); the submitted
\* form is kept beside the record of the interaction
SubmitForm ==
    /\ steps = 0
    /\ \E req \in FormRequests(Len(Current("A"))) :
         LET sel == selected_user["A"]
             valid == Current("A")
             new_positions == NewPositions(valid, req, 1)
             ur == [user_rankings["A"] EXCEPT ![sel] = ApplyChanges(valid, new_positions)]
             r == save_rankings_to_github(github_repo["A"], ur, remote_file, local_file,
                                          Healthy)
         IN  /\ new_positions # <<>>
             /\ remote_file' = r.remote
             /\ local_file' = r.local
             /\ Display("A", ur, players_data["A"], sel)
             /\ last' = Interaction("apply", "A", TRUE, r.wrote, Healthy, JsonDumps(ur),
                                     valid, r.raised) @@ [req |-> req]
    /\ steps' = 1
    /\ UNCHANGED <<matchVars, storeVars, github_repo, players_data, sleeper_players,
                   drafted_players, selected_user, acked, faults>>

SpecForm == InitForm /\ [][SubmitForm]_vars

(***************************************************************************)
(* Claims about the reconciler (SpecMatch)                                 *)
(***************************************************************************)
IsOverride(name) == InSeq(name, manual_drafted_players)

ExactAt(name, d, i) == d[i].present /\ DirectMatch(name, SleeperFullName(d[i]))
AliasAt(name, d, i) == d[i].present /\ AliasMatch(name, SleeperFullName(d[i]))
SuffixAt(name, d, i) == d[i].present /\ SuffixMatch(name, SleeperFullName(d[i]))

\* C1: the tiers are applied in strict priority order per ranked player: a
\* ranked name that is not on the override list gets the id of the first
\* directory entry whose full name equals it case-insensitively, whatever
\* earlier entries match through the alias table or the suffix comparison; and
\* with no exact match, the id of the first alias-table match, whatever earlier
\* entries match through the suffix comparison.
C1_StrictTierPriority ==
    mpc = "done" =>
      \A r \in 1..Len(df_in) :
        LET name == Strip(df_in[r].PLAYER_NAME)
            exact == { i \in 1..Len(dir_in) : ExactAt(name, dir_in, i) }
            alias == { i \in 1..Len(dir_in) : AliasAt(name, dir_in, i) }
            Min(S) == CHOOSE i \in S : \A j \in S : i <= j
        IN  ~IsOverride(name) =>
              /\ exact # {} => df_out[r].sleeper_id = dir_in[Min(exact)].id
              /\ (exact = {} /\ alias # {}) =>
                     df_out[r].sleeper_id = dir_in[Min(alias)].id

\* C2: whatever the directory and the drafted-id set hold, every row whose
\* display name is on the override list comes out drafted, with the sentinel
\* 'manual_override' as its sleeper_id and never a directory id.
C2_OverrideAlwaysDrafted ==
    mpc = "done" =>
      \A r \in 1..Len(df_in) :
        IsOverride(df_in[r].PLAYER_NAME) =>
          /\ df_out[r].drafted = TRUE
          /\ df_out[r].sleeper_id = ManualOverrideId
          /\ \A i \in 1..Len(dir_in) : df_out[r].sleeper_id # dir_in[i].id

\* an override row reconciled against a directory that holds the same name
\* under an id that is not drafted
C2_Witness ==
    /\ mpc = "done"
    /\ \E r \in 1..Len(df_in) :
         /\ df_in[r].PLAYER_NAME = JoshAllen
         /\ \E i \in 1..Len(dir_in) :
              ExactAt(JoshAllen, dir_in, i) /\ dir_in[i].id \notin ids_in


(***************************************************************************)
(* Claims about the ranking store (SpecStore)                              *)
(***************************************************************************)
\* C7: save followed immediately by load is a round trip, with or without a
\* repository configured and whichever backend the save ended up writing to:
\* once a save of the rankings has written a backend, the next load (its own
\* reads succeeding) returns exactly those rankings.
C7_SaveLoadRoundTrip ==
    (st_pc = "reloaded" /\ st_wrote # "none" /\ st_load_env = Healthy) =>
        /\ ~st_loaded.raised
        /\ st_loaded.value = st_rankings

\* C8: load never fails the caller: whatever the backends hold and whether the
\* reads succeed (no repository, missing file, read error, undecodable text),
\* it returns and does not raise; with no file in the backend it reads (the
\* repository's when one is configured, else the local one) the dict has
\* exactly the four user keys, each with the empty list.
C8_LoadNeverFails ==
    st_pc \in {"loaded", "reloaded"} =>
        /\ ~st_loaded.raised
        /\ (IF st_repo = None THEN local_file ELSE remote_file) = Missing =>
               /\ DOMAIN st_loaded.value = {"nathan", "nathaniel", "jack", "kyle"}
               /\ \A u \in {"nathan", "nathaniel", "jack", "kyle"} :
                     st_loaded.value[u] = <<>>

\* a load without repository whose local file does not decode, and one that
\* found no file at all
C8_Witness ==
    /\ st_pc = "loaded"
    /\ st_repo = None
    /\ local_file = Garbage
    /\ st_load_env = Healthy
    /\ st_loaded = Return(EmptyRankings)

(***************************************************************************)
(* Claims about one session (Spec)                                         *)
(***************************************************************************)
\* the document of the backend the session is configured for
PersistedDoc(s) == IF github_repo[s] = None THEN local_file ELSE remote_file

EditOps == {"apply", "clear", "randomize", "reverse", "copy_ecr", "add"}

\* C3: when the directory fetch or the picks fetch of a 'Refresh Draft Data'
\* fails, the reconciler is not invoked: every ranked row keeps the drafted
\* flag and the sleeper_id it had before that refresh.
C3_FailedFetchKeepsFlags ==
    [][(steps' = steps + 1 /\ last'.op = "refresh" /\ ~last'.fetch_ok) =>
          players_data'[last'.s] = players_data[last'.s]]_vars

\* C4 as claimed: in-memory and persisted rankings never diverge: every
\* interaction that changes a list of the session's in-memory mapping, the
\* backend being healthy, ends with the persisted document equal to that
\* mapping.
C4_NeverDiverge ==
    [][\A s \in Sessions :
          (/\ steps' = steps + 1
           /\ last'.s = s
           /\ last'.env = Healthy
           /\ user_rankings'[s] # user_rankings[s]) =>
              PersistedDoc(s)' = JsonDumps(user_rankings'[s])]_vars

\* C4 as amended: after an edit of the editor (apply, clear, randomize,
\* reverse, copy from ECR, add) whose write to the configured backend
\* succeeded, the persisted document equals the in-memory mapping.
C4_EditsPersisted ==
    (/\ last.op \in EditOps
     /\ last.wrote = (IF github_repo[last.s] = None THEN "local" ELSE "remote")) =>
        /\ PersistedDoc(last.s) = JsonDumps(user_rankings[last.s])
        /\ JsonLoads(PersistedDoc(last.s)) = Return(user_rankings[last.s])

\* an edit that changed the selected list and reached the repository, made
\* after a refresh had marked a player drafted
C4_Witness ==
    /\ last.op \in EditOps
    /\ last.wrote = "remote"
    /\ github_repo[last.s] = Repo
    /\ last.before # user_rankings[last.s][selected_user[last.s]]
    /\ remote_file = JsonDumps(user_rankings[last.s])
    /\ \E i \in 1..Len(players_data[last.s]) :
          players_data[last.s][i].sleeper_id = "s5" /\ players_data[last.s][i].drafted

\* C5: a player a refresh has marked drafted is, for as long as the flag
\* stays, in no displayed ranking list (whichever user is selected) and in no
\* consensus row, whatever the stored lists still hold.
C5_DraftedNeverShown ==
    \A s \in Sessions :
      \A i \in 1..Len(players_data[s]) :
        players_data[s][i].drafted =>
          /\ players_data[s][i].PLAYER_NAME \notin Range(shown[s])
          /\ \A j \in 1..Len(consensus[s]) :
                consensus[s][j].Player # players_data[s][i].PLAYER_NAME

\* a player drafted through the picks of a refresh, still in some user's list
\* in memory, with the editor and the table shown after a later action
C5_Witness ==
    /\ last.op \in {"select_user", "reload", "add", "reverse"}
    /\ shown["A"] # <<>>
    /\ consensus["A"] # <<>>
    /\ \E i \in 1..Len(players_data["A"]) :
          /\ players_data["A"][i].drafted
          /\ players_data["A"][i].sleeper_id = "s5"
          /\ players_data["A"][i].PLAYER_NAME \in AllRanked(user_rankings["A"])

\* the 1-based position of a name in a list that holds it
PositionIn(l, name) == CHOOSE i \in 1..Len(l) : l[i] = name

RECURSIVE RankSum(_, _, _)
RankSum(who, ur, name) ==
    IF who = {} THEN 0
    ELSE LET u == CHOOSE x \in who : TRUE
         IN  PositionIn(ur[u], name) + RankSum(who \ {u}, ur, name)

Abs(x) == IF x < 0 THEN -x ELSE x

\* C6: the consensus table has exactly one row per name that is in some
\* user's list and belongs to a non-drafted ranked player, and no other row;
\* in a row the total is the sum of the 1-based positions of the name over
\* the users whose list holds it, the count is the number of those users, and
\* the average shown is total / count (to the displayed decimal).
C6_ConsensusRows ==
    \A s \in Sessions :
      LET ur == user_rankings[s]
          pd == players_data[s]
          expected == { n \in AllRanked(ur) :
                          \E i \in 1..Len(pd) : pd[i].PLAYER_NAME = n /\ ~pd[i].drafted }
      IN  /\ { consensus[s][j].Player : j \in 1..Len(consensus[s]) } = expected
          /\ Len(consensus[s]) = Cardinality(expected)
          /\ \A j \in 1..Len(consensus[s]) :
               LET row == consensus[s][j]
                   who == { u \in Users : row.Player \in Range(ur[u]) }
               IN  /\ row.RankedBy = Cardinality(who)
                   /\ row.total = RankSum(who, ur, row.Player)
                   /\ 2 * Abs(10 * row.total - row.AvgRank * row.RankedBy)
                        <= row.RankedBy

\* after an interaction, two users rank [X, Y] and [Y, X]: Y averages 1.5
C6_Witness ==
    /\ steps > 0
    /\ user_rankings["A"]["nathan"] = <<BoNix, MarvinHarrisonJr>>
    /\ user_rankings["A"]["jack"] = <<MarvinHarrisonJr, BoNix>>
    /\ \E j \in 1..Len(consensus["A"]) :
          /\ consensus["A"][j].Player = MarvinHarrisonJr
          /\ consensus["A"][j].total = 3
          /\ consensus["A"][j].RankedBy = 2
          /\ consensus["A"][j].AvgRank = 15

\* the exact reverse of a list
Rev(l) == [i \in 1..Len(l) |-> l[Len(l) + 1 - i]]

\* C9: 'Reverse Order' replaces the selected user's list by its exact reverse
\* and nothing else (a second one right after restores the list), and the
\* same interaction hands the whole mapping with the reversed list to save,
\* which puts exactly that text in the backend that takes the write; nothing
\* is written only when the environment refused the write.
C9_ReverseThenSave ==
    [][(steps' = steps + 1 /\ last'.op = "reverse") =>
          LET s == last'.s
              sel == selected_user[s]
          IN  /\ selected_user'[s] = sel
              /\ user_rankings'[s] =
                   [user_rankings[s] EXCEPT ![sel] = Rev(user_rankings[s][sel])]
              /\ last'.payload = JsonDumps(user_rankings'[s])
              /\ last'.wrote = "remote" => remote_file' = last'.payload
              /\ last'.wrote = "local" => local_file' = last'.payload
              /\ last'.wrote = "none" => last'.env # Healthy
              /\ (last.op = "reverse" /\ last.s = s) =>
                     user_rankings'[s][sel] = last.before]_vars

\* a reverse of a list of two names or more, written to the repository
C9_Witness ==
    /\ last.op = "reverse"
    /\ Len(last.before) >= 2
    /\ user_rankings[last.s][selected_user[last.s]] # last.before
    /\ last.wrote = "remote"
    /\ remote_file = last.payload

(***************************************************************************)
(* Claims about two sessions (SpecShared)                                  *)
(***************************************************************************)
\* C10: a save replaces the whole shared document by the saving session's
\* in-memory mapping, without merging: after every interaction that wrote the
\* repository the document is exactly the mapping of the session that wrote,
\* and no other interaction changes the document.
C10_LastWriterWins ==
    [][steps' = steps + 1 =>
          IF last'.wrote = "remote"
          THEN remote_file' = JsonDumps(user_rankings'[last'.s])
          ELSE remote_file' = remote_file]_vars

\* a lost update: session A saved a list with a name it added, session B saved
\* later, and the document no longer holds that name in that list
C10_Witness ==
    /\ last.s = "B"
    /\ last.wrote = "remote"
    /\ acked["A"] # NoAck
    /\ remote_file = JsonDumps(user_rankings["B"])
    /\ \E u \in Users :
          \E name \in Range(acked["A"][u]) :
             /\ name \notin Range(SeedRankings[u])
             /\ name \notin Range(JsonLoads(remote_file).value[u])

(***************************************************************************)
(* Further claims about the reconciler (SpecMatch)                         *)
(***************************************************************************)
\* a name with the generational suffixes ' III', ' II' and ' Jr.' taken off,
\* trimmed, in lower case
WithoutSuffixes(s) ==
    Lower(Strip(Replace(Replace(Replace(s, SuffixIII, <<>>), SuffixII, <<>>),
                        SuffixJr, <<>>)))

\* C11: suffix-normalized matching: a ranked name that is not on the override
\* list and equals the full name of some directory entry case-insensitively
\* once ' Jr.', ' II' and ' III' are taken off both gets a directory id (a
\* ranked 'Name III' matches a directory 'Name', and the other way round).
C11_SuffixNormalizedMatch ==
    mpc = "done" =>
      \A r \in 1..Len(df_in) :
        LET name == Strip(df_in[r].PLAYER_NAME)
        IN  (/\ ~IsOverride(name)
             /\ \E i \in 1..Len(dir_in) :
                   /\ dir_in[i].present
                   /\ WithoutSuffixes(name) = WithoutSuffixes(SleeperFullName(dir_in[i])))
            => \E i \in 1..Len(dir_in) : df_out[r].sleeper_id = dir_in[i].id

(***************************************************************************)
(* Claims about the consensus table (SpecConsensus)                        *)
(***************************************************************************)
\* the users whose list holds the name
RankedByUsers(ur, name) == { u \in Users : name \in Range(ur[u]) }

\* C12: the consensus rows are in ascending order of the exact average rank:
\* when a row precedes another, the mean of the 1-based positions of its
\* name over the users who rank it is at most that of the other row
\* (compared by cross-multiplication, without rounding).
C12_SortedByExactAverage ==
    last.op = "render" =>
      LET ur == user_rankings["A"]
          view == consensus["A"]
      IN  \A i, j \in 1..Len(view) :
            i < j =>
              RankSum(RankedByUsers(ur, view[i].Player), ur, view[i].Player)
                  * Cardinality(RankedByUsers(ur, view[j].Player))
              <= RankSum(RankedByUsers(ur, view[j].Player), ur, view[j].Player)
                  * Cardinality(RankedByUsers(ur, view[i].Player))

\* a table where rounding to one decimal loses digits: a row of average 5/4
\* (shown 1.2) ahead of a row of average 5/3 (shown 1.7)
C12_Witness ==
    /\ last.op = "render"
    /\ \E i, j \in 1..Len(consensus["A"]) :
          /\ i < j
          /\ consensus["A"][i].total = 5 /\ consensus["A"][i].RankedBy = 4
          /\ consensus["A"][i].AvgRank = 12
          /\ consensus["A"][j].total = 5 /\ consensus["A"][j].RankedBy = 3
          /\ consensus["A"][j].AvgRank = 17

(***************************************************************************)
(* Further claims about one session (Spec)                                 *)
(***************************************************************************)
\* a list without the names that have no available row
Pruned(l, pd) ==
    LET Available(name) ==
            \E i \in 1..Len(pd) : pd[i].PLAYER_NAME = name /\ ~pd[i].drafted
    IN  SelectSeq(l, Available)

\* C13: pruning precedes every use of a list: the rank the consensus table
\* shows for a user and a player is the player's position in that user's list
\* with the unavailable names filtered out, for every user and not only the
\* selected one (and no rank when the filtered list does not hold the player).
C13_PrunedBeforeUse ==
    \A s \in Sessions :
      \A j \in 1..Len(consensus[s]) :
        \A u \in Users :
          LET name == consensus[s][j].Player
              filtered == Pruned(user_rankings[s][u], players_data[s])
          IN  consensus[s][j].ranks[u] =
                IF name \in Range(filtered) THEN PositionIn(filtered, name) ELSE 0


NoDuplicates(l) == \A i, j \in 1..Len(l) : i # j => l[i] # l[j]

\* C14: uniqueness: the stored lists having no duplicates, no user's in-memory
\* list ever holds a name twice, whatever edits, prunings, reloads and
\* refreshes were made; and an add appends to the selected user's list one
\* name that the list did not hold.
C14_NoDuplicates ==
    /\ \A s \in Sessions : \A u \in Users : NoDuplicates(user_rankings[s][u])
    /\ last.op = "add" =>
         LET l == user_rankings[last.s][selected_user[last.s]]
         IN  /\ Len(l) = Len(last.before) + 1
             /\ SubSeq(l, 1, Len(l) - 1) = last.before
             /\ l[Len(l)] \notin Range(last.before)

\* an add to a list of two names
C14_Witness ==
    /\ last.op = "add"
    /\ Len(last.before) = 2
    /\ Len(user_rankings[last.s][selected_user[last.s]]) = 3


\* C15: an edit (apply, clear, randomize, reverse, copy from ECR, add) and the
\* filter of a render change only the list of the user then selected: the
\* lists of the other three users and the set of keys of the mapping are as
\* they were before the interaction.
C15_OnlySelectedListChanges ==
    [][(steps' = steps + 1 /\ last'.op \in EditOps \cup {"refresh", "select_user"}) =>
          /\ DOMAIN user_rankings'[last'.s] = DOMAIN user_rankings[last'.s]
          /\ \A u \in Users :
                u # selected_user'[last'.s] =>
                   user_rankings'[last'.s][u] = user_rankings[last'.s][u]]_vars

\* a refresh whose render has filtered the selected user's list, another
\* user's list still holding the drafted name
C15_Witness ==
    /\ last.op = "refresh"
    /\ selected_user["A"] = "nathan"
    /\ user_rankings["A"]["nathan"] = <<MarvinHarrisonJr>>
    /\ user_rankings["A"]["jack"] = <<MarvinHarrisonJr, BoNix>>


\* C16: a failed write never aborts the operation: every editor button whose
\* save was attempted returns from the save without an exception, the
\* session's mapping is exactly the mutated mapping handed to the save (no
\* rollback, whichever backend failed), and the re-rendered editor shows the
\* mutated list.
C16_SaveErrorNeverAborts ==
    last.op \in EditOps =>
        /\ ~last.raised
        /\ JsonDumps(user_rankings[last.s]) = last.payload
        /\ shown[last.s] = user_rankings[last.s][selected_user[last.s]]

\* C16's case: both the remote and the local write failed while the button
\* changed the list, and the files still hold the older document
C16_Witness ==
    /\ last.op \in EditOps
    /\ last.wrote = "none"
    /\ last.before # user_rankings[last.s][selected_user[last.s]]
    /\ user_rankings[last.s][selected_user[last.s]] # <<>>
    /\ PersistedDoc(last.s) # last.payload


(***************************************************************************)
(* Claims about the reorder form (SpecForm)                                *)
(***************************************************************************)
\* the rows of a submitted form that are ticked for removal, and the rows
\* whose rank was changed and that are not ticked
RemovedRows(req) == { i \in DOMAIN req : req[i].remove }
MovedRows(req) == { i \in DOMAIN req : ~req[i].remove /\ req[i].new_rank # i }

\* C17: after 'Apply Changes' with any form on any list, the new list is a
\* permutation of the old list without exactly the players ticked for removal
\* (a tick wins over a changed rank); the players neither moved nor removed
\* keep their relative order; and when nothing is ticked and the requested
\* ranks of the moved players are pairwise distinct, each moved player stands
\* at exactly its requested rank.
C17_ApplyChanges ==
    (steps = 1 /\ last.op = "apply") =>
        LET old == last.before
            req == last.req
            new == user_rankings["A"][selected_user["A"]]
            still == DOMAIN req \ (RemovedRows(req) \cup MovedRows(req))
        IN  /\ Range(new) = { old[i] : i \in DOMAIN req \ RemovedRows(req) }
            /\ Len(new) = Len(old) - Cardinality(RemovedRows(req))
            /\ \A i, j \in still :
                  i < j => PositionIn(new, old[i]) < PositionIn(new, old[j])
            /\ (/\ RemovedRows(req) = {}
                /\ \A i, j \in MovedRows(req) :
                      i # j => req[i].new_rank # req[j].new_rank)
               => \A i \in MovedRows(req) : new[req[i].new_rank] = old[i]

\* C17's case: a list of three players, the first two moved to distinct
\* ranks in one form, nothing removed
C17_Witness ==
    /\ steps = 1
    /\ last.op = "apply"
    /\ Len(last.before) = 3
    /\ RemovedRows(last.req) = {}
    /\ MovedRows(last.req) = {1, 2}
    /\ last.req[1].new_rank = 2
    /\ last.req[2].new_rank = 1
    /\ user_rankings["A"][selected_user["A"]] # last.before

=============================================================================
